---- MODULE Spec2Model ----
(***************************************************************************)
(* The signal engine of src/tara_engine.py as a state machine.             *)
(*                                                                         *)
(* One run of the engine over one input table: run_signals (prepare_data,  *)
(* resample_to_weekly, the eleven daily masks, the filter and the          *)
(* stop-loss) and run_weekly_signals (resample_to_weekly, the weekly       *)
(* masks), statement by statement.  A frame is a sequence of rows, a row a *)
(* record from column names to values, and `cols` is the set of columns of *)
(* the daily frame.                                                        *)
(*                                                                         *)
(* Numbers.  Prices and volumes are integers; a comparison against a       *)
(* decimal factor (x > y * 1.0015) is made exactly, by cross               *)
(* multiplication (x * 10000 > y * 10015); a rolling mean is held as its   *)
(* window sum, and compared as such; STOP_LOSS is held in thousandths.     *)
(* The rounding of binary floating point is not modelled.  NaN is a value  *)
(* of its own: every comparison with it is false.                          *)
(***************************************************************************)
EXTENDS Integers, Sequences, FiniteSets, TLC

VARIABLES
    df,       \* the daily frame (run_signals' df / run_weekly_signals' daily_df)
    cols,     \* the columns of df
    weekly,   \* resample_to_weekly's frame `weekly` (wk_df / wk of the caller)
    result,   \* run_signals' frame `result`
    pc,       \* the statement about to run; "done" and "error" are final
    err,      \* the exception that ended the run, "" when none
    caller    \* which of the two engines is running ("" before either is entered)

vars == <<df, cols, weekly, result, pc, err, caller>>

(***************************************************************************)
(* Values                                                                  *)
(***************************************************************************)
NaN == -1
Bad == -2
NoSignal == "NaN"

Def(x) == x # NaN
Gt(a, b) == Def(a) /\ Def(b) /\ a > b
Lt(a, b) == Def(a) /\ Def(b) /\ a < b
Ge(a, b) == Def(a) /\ Def(b) /\ a >= b
Le(a, b) == Def(a) /\ Def(b) /\ a <= b
Eq(a, b) == Def(a) /\ Def(b) /\ a = b
\* a > b * (num / den), a < b * (num / den)
GtK(a, b, num, den) == Def(a) /\ Def(b) /\ a * den > b * num
LtK(a, b, num, den) == Def(a) /\ Def(b) /\ a * den < b * num

Symbols == <<"A", "B">>
SymRank(s) == CHOOSE k \in 1..Len(Symbols) : Symbols[k] = s

SetMin(S) == CHOOSE x \in S : \A y \in S : x <= y
SetMax(S) == CHOOSE x \in S : \A y \in S : x >= y

RECURSIVE SeqSum(_, _)
SeqSum(s, k) == IF k = 0 THEN 0 ELSE s[k] + SeqSum(s, k - 1)

(***************************************************************************)
(* The input tables.  An entity's series is `hist` quiet bars on           *)
(* consecutive trading days (Monday to Friday) followed by a tail of up to *)
(* three bars; a tail bar says how many trading days after the bar before  *)
(* it it falls (0: on the same day).  Day 0 is a Monday.                   *)
(***************************************************************************)
MaxHist == 29

DayOf(t) == (7 * (t \div 5)) + (t % 5)

Bar(inc, o, h, l, c, v) == [inc |-> inc, O |-> o, H |-> h, L |-> l, C |-> c, V |-> v]

Quiet == Bar(1, 1000, 1000, 1000, 1000, 1000000)

TailNone == << >>
\* a gap down that closes up on a new low, on thin and on heavy volume
TailUTurn == << Bar(1, 1000, 1000, 1000, 1000, 400000),
                Bar(1, 990, 1010, 985, 1010, 600000) >>
TailUTurnHeavy == << Bar(1, 1000, 1000, 1000, 1000, 400000),
                     Bar(1, 990, 1010, 985, 1010, 2000000) >>
\* the same, after a bar that opened high
TailUTurnHighPrevOpen == << Bar(1, 1050, 1050, 1000, 1000, 400000),
                            Bar(1, 990, 1010, 985, 1010, 600000) >>
\* a new low followed by a bar that holds above the prior close
TailFullStopBuy == << Bar(1, 1000, 1020, 900, 1000, 400000),
                      Bar(1, 1010, 1030, 1005, 1030, 600000) >>
TailFullStopSell == << Bar(1, 1000, 1100, 980, 1000, 400000),
                       Bar(1, 995, 995, 985, 985, 600000) >>
\* a gap up that closes down on a new high
TailUTurnSell == << Bar(1, 1000, 1000, 1000, 1000, 400000),
                    Bar(1, 1010, 1015, 985, 990, 2000000) >>
\* two falling bars and a recovery: a week apart, with a week skipped, on three days
TailThreeWeeks == << Bar(1, 1000, 1000, 980, 990, 600000),
                     Bar(5, 990, 990, 960, 970, 600000),
                     Bar(5, 970, 1000, 970, 1000, 600000) >>
TailSkippedWeek == << Bar(1, 1000, 1000, 980, 990, 600000),
                      Bar(5, 990, 990, 960, 970, 600000),
                      Bar(10, 970, 1000, 970, 1000, 600000) >>
TailThreeDays == << Bar(1, 1000, 1000, 980, 990, 600000),
                    Bar(1, 990, 990, 960, 970, 600000),
                    Bar(1, 970, 1000, 970, 1000, 600000) >>

\* two rows of one symbol on one day
TailSameDay == << Bar(1, 1000, 1000, 1000, 1000, 400000),
                 Bar(0, 1000, 1010, 990, 1005, 600000) >>

TailsA == { TailNone, TailUTurn, TailUTurnHeavy, TailUTurnHighPrevOpen,
            TailFullStopBuy, TailFullStopSell, TailUTurnSell,
            TailThreeWeeks, TailSkippedWeek, TailThreeDays, TailSameDay }
TailsB == { TailNone, TailFullStopBuy, TailFullStopSell }
HistsA == { 0, 18, 27, 28, MaxHist }
HistsB == { 0, 27, MaxHist }

\* the trading day of the k-th tail bar
TailDay(hist, tail, k) == hist - 1 + SeqSum([j \in 1..Len(tail) |-> tail[j].inc], k)

RawRow(s, t, b) ==
    [SYMBOL |-> s, TIMESTAMP |-> DayOf(t), OPEN |-> b.O, HIGH |-> b.H,
     LOW |-> b.L, CLOSE |-> b.C, TOTTRDQTY |-> b.V]

Series(s, hist, tail) ==
    [k \in 1..(hist + Len(tail)) |->
        IF k <= hist THEN RawRow(s, k - 1, Quiet)
        ELSE RawRow(s, TailDay(hist, tail, k - hist), tail[k - hist])]

Reverse(f) == [k \in 1..Len(f) |-> f[Len(f) + 1 - k]]

\* the table with row k's timestamp unparseable (k = 0: every timestamp parses)
WithBadTimestamp(f, k) ==
    [i \in 1..Len(f) |-> IF i = k THEN [f[i] EXCEPT !.TIMESTAMP = Bad] ELSE f[i]]

\* the column MAX_HIGH_1W, when the input table itself carries one
WithMaxHigh1W(f, how) ==
    [i \in 1..Len(f) |->
        f[i] @@ [MAX_HIGH_1W |-> IF how = "high" THEN f[i].HIGH ELSE 0]]

RequiredCols == {"SYMBOL", "TIMESTAMP", "OPEN", "HIGH", "LOW", "CLOSE", "TOTTRDQTY"}

Init ==
    \E ha \in HistsA, ta \in TailsA, hb \in HistsB, tb \in TailsB,
       rev \in BOOLEAN, extra \in {"absent", "high"} :
      LET t0 == Series("A", ha, ta) \o Series("B", hb, tb)
          t1 == IF rev THEN Reverse(t0) ELSE t0
      IN \E bad \in {0, Len(t1)} :
           /\ Len(t1) > 0
           /\ df = LET t2 == WithBadTimestamp(t1, bad)
                   IN IF extra = "absent" THEN t2 ELSE WithMaxHigh1W(t2, extra)
           /\ cols = IF extra = "absent" THEN RequiredCols
                     ELSE RequiredCols \cup {"MAX_HIGH_1W"}
           /\ weekly = << >>
           /\ result = << >>
           /\ pc = "to_datetime"
           /\ err = ""
           /\ caller = ""

Raise(e) ==
    /\ pc' = "error"
    /\ err' = e
    /\ UNCHANGED <<df, cols, weekly, result, caller>>

(***************************************************************************)
(* prepare_data                                                            *)
(***************************************************************************)
\* df['DATE'] = pd.to_datetime(df['TIMESTAMP']): raises on a timestamp that
\* does not parse (errors='raise' is the default)
ToDatetime ==
    /\ pc = "to_datetime"
    /\ IF \E i \in 1..Len(df) : df[i].TIMESTAMP = Bad
       THEN Raise("ValueError")
       ELSE /\ df' = [i \in 1..Len(df) |-> df[i] @@ [DATE |-> df[i].TIMESTAMP]]
            /\ cols' = cols \cup {"DATE"}
            /\ pc' = "sort"
            /\ UNCHANGED <<weekly, result, err, caller>>

\* the order of sort_values(by=['SYMBOL', 'DATE'])
RowBefore(a, b) ==
    \/ SymRank(a.SYMBOL) < SymRank(b.SYMBOL)
    \/ a.SYMBOL = b.SYMBOL /\ a.DATE < b.DATE

\* stable: among rows with equal keys the one that came first stays first
SortPos(f, i) ==
    1 + Cardinality({j \in 1..Len(f) :
                        \/ RowBefore(f[j], f[i])
                        \/ ~RowBefore(f[i], f[j]) /\ j < i})

RECURSIVE SortPosSeq(_, _)
SortPosSeq(f, k) == IF k = 0 THEN << >> ELSE Append(SortPosSeq(f, k - 1), SortPos(f, k))

\* the rows of f, each at its position pos
Permute(f, pos) == [k \in 1..Len(f) |-> f[CHOOSE i \in 1..Len(f) : pos[i] = k]]

SortRows(f) == Permute(f, SortPosSeq(f, Len(f)))

SortValues ==
    /\ pc = "sort"
    /\ df' = SortRows(df)
    /\ pc' = "shift"
    /\ UNCHANGED <<cols, weekly, result, err, caller>>

(***************************************************************************)
(* Shifts and rolling windows.  Each is given by the rows it reads (its    *)
(* sources) and by the value it makes of them.  The grouped forms          *)
(* (df.groupby('SYMBOL')[col]...) count positions within the rows of one   *)
(* symbol; the plain forms (df[col]...) count positions in the whole       *)
(* frame.                                                                  *)
(***************************************************************************)
\* df.groupby('SYMBOL'): for each symbol its rows, in the order of the frame,
\* and for each row its position among the rows of its symbol
RECURSIVE RankSeq(_, _)
RankSeq(f, k) ==
    IF k = 0 THEN << >>
    ELSE Append(RankSeq(f, k - 1), Cardinality({j \in 1..k : f[j].SYMBOL = f[k].SYMBOL}))

RECURSIVE GroupRows(_, _)
GroupRows(f, k) ==
    IF k = 0 THEN << >>
    ELSE Append(GroupRows(f, k - 1),
                SelectSeq([i \in 1..Len(f) |-> i], LAMBDA i : f[i].SYMBOL = Symbols[k]))

GroupBy(f) == [rank |-> RankSeq(f, Len(f)), rows |-> GroupRows(f, Len(Symbols))]

\* g[col].shift(k) at row i reads the row k places earlier in i's group
GroupShiftSrc(f, g, i, k) ==
    LET m == g.rows[SymRank(f[i].SYMBOL)]
        r == g.rank[i]
    IN IF r > k THEN {m[r - k]} ELSE {}

\* the window that does not wait for n rows (min_periods = 1)
GroupRollSrcPartial(f, g, i, n) ==
    LET m == g.rows[SymRank(f[i].SYMBOL)]
        r == g.rank[i]
    IN {m[q] : q \in (IF r < n THEN 1 ELSE r - n + 1)..r}

\* g[col].rolling(n) at row i reads the last n rows of i's group, once there are n
GroupRollSrc(f, g, i, n) ==
    LET m == g.rows[SymRank(f[i].SYMBOL)]
        r == g.rank[i]
    IN IF r < n THEN {} ELSE {m[q] : q \in (r - n + 1)..r}

\* df[col].shift(k) at row i reads row i - k of the frame
ShiftSrc(f, i, k) == IF i > k THEN {i - k} ELSE {}

\* df[col].rolling(n) at row i reads rows i - n + 1 .. i of the frame
RollSrc(f, i, n) == IF i >= n THEN (i - n + 1)..i ELSE {}

ShiftVal(v, S) == IF S = {} THEN NaN ELSE v[CHOOSE j \in S : TRUE]

RollMin(v, S) ==
    IF S = {} \/ \E j \in S : v[j] = NaN THEN NaN ELSE SetMin({v[j] : j \in S})

RollMax(v, S) ==
    IF S = {} \/ \E j \in S : v[j] = NaN THEN NaN ELSE SetMax({v[j] : j \in S})

RECURSIVE SumOver(_, _)
SumOver(v, S) ==
    IF S = {} THEN 0 ELSE LET j == CHOOSE x \in S : TRUE IN v[j] + SumOver(v, S \ {j})

\* the window sum: the rolling mean times the window length
RollSum(v, S) ==
    IF S = {} \/ \E j \in S : v[j] = NaN THEN NaN ELSE SumOver(v, S)

Col(f, c) == [i \in 1..Len(f) |-> f[i][c]]

\* --- PREVIOUS DAY DATA (Shift 1) ---
PrevDayCols == {"PDO", "PDH", "PDL", "PDC", "PD_VOL"}

PrevDayRow(f, g, i) ==
    LET S == GroupShiftSrc(f, g, i, 1)
    IN [PDO |-> ShiftVal(Col(f, "OPEN"), S),
        PDH |-> ShiftVal(Col(f, "HIGH"), S),
        PDL |-> ShiftVal(Col(f, "LOW"), S),
        PDC |-> ShiftVal(Col(f, "CLOSE"), S),
        PD_VOL |-> ShiftVal(Col(f, "TOTTRDQTY"), S)]

WithPrevDay(f, g) == [i \in 1..Len(f) |-> f[i] @@ PrevDayRow(f, g, i)]

PrevDayShift ==
    /\ pc = "shift"
    /\ df' = WithPrevDay(df, GroupBy(df))
    /\ cols' = cols \cup PrevDayCols
    /\ pc' = "rolling"
    /\ UNCHANGED <<weekly, result, err, caller>>

\* --- AVERAGES --- and --- ROLLING HIGHS/LOWS (Look-backs) ---
RollingCols == {"AVG_VOL_5", "AVG_VOL_10", "AVG_VOL_90",
                "MIN_LOW_1W", "MIN_LOW_2W", "MIN_LOW_4W", "MIN_LOW_6W",
                "MAX_HIGH_2W", "MAX_HIGH_3W", "MAX_HIGH_6W", "MAX_HIGH_10W"}

RollingRow(f, g, i) ==
    LET vol == Col(f, "TOTTRDQTY")
        low == Col(f, "LOW")
        high == Col(f, "HIGH")
    IN [AVG_VOL_5 |-> RollSum(vol, GroupRollSrc(f, g, i, 5)),
        AVG_VOL_10 |-> RollSum(vol, GroupRollSrc(f, g, i, 10)),
        AVG_VOL_90 |-> RollSum(vol, GroupRollSrc(f, g, i, 90)),
        MIN_LOW_1W |-> RollMin(low, GroupRollSrc(f, g, i, 5)),
        MIN_LOW_2W |-> RollMin(low, GroupRollSrc(f, g, i, 10)),
        MIN_LOW_4W |-> RollMin(low, GroupRollSrc(f, g, i, 20)),
        MIN_LOW_6W |-> RollMin(low, GroupRollSrc(f, g, i, 30)),
        MAX_HIGH_2W |-> RollMax(high, GroupRollSrc(f, g, i, 10)),
        MAX_HIGH_3W |-> RollMax(high, GroupRollSrc(f, g, i, 15)),
        MAX_HIGH_6W |-> RollMax(high, GroupRollSrc(f, g, i, 30)),
        MAX_HIGH_10W |-> RollMax(high, GroupRollSrc(f, g, i, 50))]

WithRolling(f, g) == [i \in 1..Len(f) |-> f[i] @@ RollingRow(f, g, i)]

\* A grouped rolling result is indexed by (SYMBOL, row label), the frame by
\* row label alone.  What the column assignment makes of that is decided by
\* the pandas build, not by this repository: it raises TypeError
\* (incompatible index of inserted column with frame index) or stores each
\* value at its row.
RollingFeatures ==
    /\ pc = "rolling"
    /\ \/ Raise("TypeError")
       \/ /\ df' = WithRolling(df, GroupBy(df))
          /\ cols' = cols \cup RollingCols
          /\ pc' = "prepared"
          /\ UNCHANGED <<weekly, result, err, caller>>

\* prepare_data has returned; run_signals goes on to line 93, and
\* run_weekly_signals is the other engine that takes a prepared frame
EnterRunSignals ==
    /\ pc = "prepared"
    /\ caller' = "run_signals"
    /\ pc' = "wk_agg"
    /\ UNCHANGED <<df, cols, weekly, result, err>>

EnterRunWeeklySignals ==
    /\ pc = "prepared"
    /\ caller' = "run_weekly_signals"
    /\ pc' = "wk_agg"
    /\ UNCHANGED <<df, cols, weekly, result, err>>

(***************************************************************************)
(* resample_to_weekly                                                      *)
(***************************************************************************)
\* 'W-FRI': the week a day falls in is named by the Friday that ends it
WeekEnd(d) == d + ((11 - (d % 7)) % 7)

SymbolRows(f, s) == {i \in 1..Len(f) : f[i].SYMBOL = s}

\* the rows of symbol s in the week ending w
WeekRows(f, s, w) == {i \in SymbolRows(f, s) : WeekEnd(f[i].DATE) = w}

\* OPEN first, HIGH max, LOW min, CLOSE last, TOTTRDQTY sum; a week without
\* rows has no first, max, min or last, and the sum 0
AggWeek(f, s, w) ==
    LET R == WeekRows(f, s, w)
    IN [SYMBOL |-> s, DATE |-> w,
        TWO |-> IF R = {} THEN NaN ELSE f[SetMin(R)].OPEN,
        TWH |-> IF R = {} THEN NaN ELSE SetMax({f[i].HIGH : i \in R}),
        TWL |-> IF R = {} THEN NaN ELSE SetMin({f[i].LOW : i \in R}),
        TWC |-> IF R = {} THEN NaN ELSE f[SetMax(R)].CLOSE,
        TOTTRDQTY |-> SumOver(Col(f, "TOTTRDQTY"), R)]

\* the bins of one symbol: every week from its first day's to its last day's
ResampleSymbol(f, s) ==
    LET R == SymbolRows(f, s)
        first == SetMin({WeekEnd(f[i].DATE) : i \in R})
        last == SetMax({WeekEnd(f[i].DATE) : i \in R})
    IN IF R = {} THEN << >>
       ELSE [k \in 1..((last - first) \div 7 + 1) |-> AggWeek(f, s, first + 7 * (k - 1))]

HasNaN(w) == NaN \in {w.TWO, w.TWH, w.TWL, w.TWC, w.TOTTRDQTY}

\* the frame with its empty weeks kept
KeepNa(f) == f

DropNa(f) == SelectSeq(f, LAMBDA w : ~HasNaN(w))

RECURSIVE ResampleAll(_, _)
ResampleAll(f, k) ==
    IF k = 0 THEN << >> ELSE ResampleAll(f, k - 1) \o ResampleSymbol(f, Symbols[k])

\* lines 53-64: resample, aggregate, dropna, reset_index, rename
WeeklyAggregate ==
    /\ pc = "wk_agg"
    /\ weekly' = DropNa(ResampleAll(df, Len(Symbols)))
    /\ pc' = "wk_shift"
    /\ UNCHANGED <<df, cols, result, err, caller>>

WeeklyShiftRow(f, g, i) ==
    LET P == GroupShiftSrc(f, g, i, 1)
        Q == GroupShiftSrc(f, g, i, 2)
    IN [PWO |-> ShiftVal(Col(f, "TWO"), P), PWH |-> ShiftVal(Col(f, "TWH"), P),
        PWL |-> ShiftVal(Col(f, "TWL"), P), PWC |-> ShiftVal(Col(f, "TWC"), P),
        QWO |-> ShiftVal(Col(f, "TWO"), Q), QWH |-> ShiftVal(Col(f, "TWH"), Q),
        QWL |-> ShiftVal(Col(f, "TWL"), Q), QWC |-> ShiftVal(Col(f, "TWC"), Q)]

WithWeeklyShifts(f, g) == [i \in 1..Len(f) |-> f[i] @@ WeeklyShiftRow(f, g, i)]

\* lines 67-76
WeeklyShifts ==
    /\ pc = "wk_shift"
    /\ weekly' = WithWeeklyShifts(weekly, GroupBy(weekly))
    /\ pc' = "wk_roll"
    /\ UNCHANGED <<df, cols, result, err, caller>>

\* WK_HIGH_5W is the rolling min of the weekly highs, as written on line 80
WeeklyRollingRow(f, g, i) ==
    [WK_LOW_7W |-> RollMin(Col(f, "TWL"), GroupRollSrc(f, g, i, 7)),
     WK_HIGH_5W |-> RollMin(Col(f, "TWH"), GroupRollSrc(f, g, i, 5)),
     WK_HIGH_10W |-> RollMax(Col(f, "TWH"), GroupRollSrc(f, g, i, 10))]

WithWeeklyRolling(f, g) == [i \in 1..Len(f) |-> f[i] @@ WeeklyRollingRow(f, g, i)]

\* lines 79-83.  The same grouped assignment as in prepare_data, under the
\* same build: a run that got past prepare_data stores the values here too.
WeeklyRolling ==
    /\ pc = "wk_roll"
    /\ weekly' = WithWeeklyRolling(weekly, GroupBy(weekly))
    /\ pc' = IF caller = "run_signals" THEN "s1" ELSE "w11"
    /\ UNCHANGED <<df, cols, result, err, caller>>

(***************************************************************************)
(* run_weekly_signals                                                      *)
(***************************************************************************)
\* 11. WEEKLY REVERSAL (BUY): the third operand resamples a series that is
\* indexed by row label, not by date; Series.resample raises TypeError.
Mask_w11 ==
    /\ pc = "w11"
    /\ Raise("TypeError")

\* 13. 3-WEEK REVERSAL (BUY), lines 294-302 (after the raise of line 280 no
\* run evaluates it)
mask_w13(w) ==
    /\ Gt(w.TWC, w.PWH)
    /\ Gt(w.TWC, w.QWC)
    /\ GtK(w.TWC, w.TWO, 101, 100)
    /\ Lt(w.PWL, w.QWL)
    /\ Lt(w.PWC, w.PWO)
    /\ Lt(w.QWC, w.QWO)
    /\ Gt(w.TOTTRDQTY, 500000)

(***************************************************************************)
(* run_signals: the daily masks.  TDO, TDC, TDL, TDH, VOL are the row's    *)
(* OPEN, CLOSE, LOW, HIGH, TOTTRDQTY.                                      *)
(***************************************************************************)
\* 1. U TURN (BUY)
mask_s1(f, i) ==
    LET r == f[i]
    IN /\ GtK(r.CLOSE, r.PDC, 10015, 10000)
       /\ LtK(r.OPEN, r.PDL, 9975, 10000)
       /\ Gt(r.CLOSE, r.PDO)
       /\ Le(r.LOW, r.MIN_LOW_4W)
       /\ GtK(r.TOTTRDQTY, r.PD_VOL, 120, 100)

\* 2. U TURN (SELL)
mask_s2(f, i) ==
    LET r == f[i]
    IN /\ LtK(r.CLOSE, r.PDC, 9985, 10000)
       /\ GtK(r.OPEN, r.PDH, 10015, 10000)
       /\ Lt(r.CLOSE, r.PDO)
       /\ Ge(r.HIGH, r.MAX_HIGH_3W)
       /\ Gt(r.CLOSE, 2)
       /\ GtK(r.TOTTRDQTY, r.PD_VOL, 120, 100)
       /\ Gt(r.TOTTRDQTY, 500000)

\* 3. JUMP START (BUY): df['MIN_LOW_2W'].shift(1) is a shift of the frame
mask_s3(f, i) ==
    LET r == f[i]
    IN /\ GtK(r.OPEN, r.PDH, 10010, 10000)
       /\ Gt(r.CLOSE, r.OPEN)
       /\ Le(r.PDL, ShiftVal(Col(f, "MIN_LOW_2W"), ShiftSrc(f, i, 1)))
       /\ Gt(r.LOW, r.PDH)
       /\ LtK(r.HIGH, r.MAX_HIGH_10W, 97, 100)
       /\ Gt(r.TOTTRDQTY, r.PD_VOL)
       /\ Gt(r.TOTTRDQTY, 500000)

\* 4. JUMP START (FREE FALL)
mask_s4(f, i) ==
    LET r == f[i]
    IN /\ LtK(r.OPEN, r.PDL, 9990, 10000)
       /\ Lt(r.CLOSE, r.OPEN)
       /\ Ge(r.PDH, ShiftVal(Col(f, "MAX_HIGH_2W"), ShiftSrc(f, i, 1)))
       /\ Lt(r.HIGH, r.PDL)
       /\ Gt(r.AVG_VOL_10, 100000 * 10)
       /\ Gt(r.CLOSE, 5)
       /\ Gt(r.TOTTRDQTY, r.PD_VOL)

\* 5. FULL STOP (BUY)
mask_s5(f, i) ==
    LET r == f[i]
    IN /\ GtK(r.LOW, r.PDC, 10010, 10000)
       /\ Gt(r.PDH, r.LOW)
       /\ Gt(r.CLOSE, r.OPEN)
       /\ Gt(r.CLOSE, r.PDH)
       /\ Le(r.PDL, ShiftVal(Col(f, "MIN_LOW_6W"), ShiftSrc(f, i, 1)))
       /\ Gt(r.TOTTRDQTY, r.PD_VOL)
       /\ Gt(r.TOTTRDQTY, 500000)

\* 6. FULL STOP (SELL)
mask_s6(f, i) ==
    LET r == f[i]
    IN /\ LtK(r.HIGH, r.PDC, 9990, 10000)
       /\ Lt(r.PDL, r.HIGH)
       /\ Lt(r.CLOSE, r.OPEN)
       /\ Ge(r.PDH, ShiftVal(Col(f, "MAX_HIGH_6W"), ShiftSrc(f, i, 1)))
       /\ Gt(r.TOTTRDQTY, r.PD_VOL)
       /\ Gt(r.TOTTRDQTY, 500000)

\* 7. TURN AROUND (BUY)
mask_s7(f, i) ==
    LET r == f[i]
    IN /\ Lt(r.OPEN, r.PDL)
       /\ Gt(r.CLOSE, r.PDC)
       /\ Eq(r.LOW, r.MIN_LOW_1W)
       /\ GtK(r.TOTTRDQTY, r.AVG_VOL_5, 1, 5)

\* 8. TURN AROUND (SELL): reads a column prepare_data never makes
mask_s8(f, i) ==
    LET r == f[i]
    IN /\ Eq(r.HIGH, r.MAX_HIGH_1W)
       /\ Gt(r.OPEN, r.PDH)
       /\ Lt(r.CLOSE, r.PDC)
       /\ GtK(r.TOTTRDQTY, r.AVG_VOL_5, 1, 5)

\* 9. REVERSE (BUY)
mask_s9(f, i) ==
    LET r == f[i]
    IN /\ GtK(r.CLOSE, r.PDC, 1002, 1000)
       /\ Eq(r.LOW, r.MIN_LOW_1W)
       /\ LtK(r.LOW, r.PDL, 9925, 10000)
       /\ GtK(r.CLOSE, r.OPEN, 1002, 1000)
       /\ GtK(r.TOTTRDQTY, r.AVG_VOL_5, 120, 100 * 5)
       /\ Gt(r.TOTTRDQTY, 500000)
       /\ GtK(r.CLOSE, 60, 1, 100)

\* 15. GAP (BUY): df['TOTTRDQTY'].rolling(3) is a window of the frame
mask_s15(f, i) ==
    LET r == f[i]
    IN /\ GtK(r.LOW, r.PDH, 101, 100)
       /\ Gt(r.CLOSE, r.OPEN)
       /\ Eq(r.TOTTRDQTY, RollMax(Col(f, "TOTTRDQTY"), RollSrc(f, i, 3)))
       /\ Gt(r.AVG_VOL_10, 200000 * 10)
       /\ Gt(r.CLOSE, 40)

\* 18. VOLUME SPIKE: df['TOTTRDQTY'].shift(2) is a shift of the frame
mask_s18(f, i) ==
    LET r == f[i]
    IN /\ GtK(r.PD_VOL, ShiftVal(Col(f, "TOTTRDQTY"), ShiftSrc(f, i, 2)), 4, 1)
       /\ LtK(r.TOTTRDQTY, r.PD_VOL, 75, 100)
       /\ Gt(r.AVG_VOL_90, 200000 * 90)
       /\ Ge(r.CLOSE, 5) /\ Le(r.CLOSE, 250)

\* the rules in the order run_signals evaluates them
Rules == <<"s1", "s2", "s3", "s4", "s5", "s6", "s7", "s8", "s9", "s15", "s18">>

Mask(k, f, i) ==
    CASE k = 1 -> mask_s1(f, i) [] k = 2 -> mask_s2(f, i) [] k = 3 -> mask_s3(f, i)
      [] k = 4 -> mask_s4(f, i) [] k = 5 -> mask_s5(f, i) [] k = 6 -> mask_s6(f, i)
      [] k = 7 -> mask_s7(f, i) [] k = 8 -> mask_s8(f, i) [] k = 9 -> mask_s9(f, i)
      [] k = 10 -> mask_s15(f, i) [] k = 11 -> mask_s18(f, i)

Label ==
    <<"U-Turn (Buy)", "U-Turn (Sell)", "Jump Start (Buy)", "Jump Start (Sell)",
      "Full Stop (Buy)", "Full Stop (Sell)", "Turn Around (Buy)", "Turn Around (Sell)",
      "Reverse (Buy)", "Gap (Buy)", "Volume Spike">>

\* the assignment that leaves a row its label once it has one
SetSignalKeepFirst(r, hit, label) ==
    IF "SIGNAL" \in DOMAIN r /\ r.SIGNAL # NoSignal THEN r
    ELSE IF hit THEN [SIGNAL |-> label] @@ r
    ELSE r @@ [SIGNAL |-> NoSignal]

\* df.loc[mask, 'SIGNAL'] = label: the rows of the mask take the label, the
\* others keep what they have (NaN when the column is new)
SetSignal(r, hit, label) ==
    IF hit THEN [SIGNAL |-> label] @@ r
    ELSE r @@ [SIGNAL |-> NoSignal]

AssignSignal(f, k) ==
    [i \in 1..Len(f) |-> SetSignal(f[i], Mask(k, f, i), Label[k])]

Mask_s1 ==
    /\ pc = "s1"
    /\ df' = AssignSignal(df, 1)
    /\ cols' = cols \cup {"SIGNAL"}
    /\ pc' = "s2"
    /\ UNCHANGED <<weekly, result, err, caller>>

Mask_s2 ==
    /\ pc = "s2"
    /\ df' = AssignSignal(df, 2)
    /\ cols' = cols \cup {"SIGNAL"}
    /\ pc' = "s3"
    /\ UNCHANGED <<weekly, result, err, caller>>

Mask_s3 ==
    /\ pc = "s3"
    /\ df' = AssignSignal(df, 3)
    /\ cols' = cols \cup {"SIGNAL"}
    /\ pc' = "s4"
    /\ UNCHANGED <<weekly, result, err, caller>>

Mask_s4 ==
    /\ pc = "s4"
    /\ df' = AssignSignal(df, 4)
    /\ cols' = cols \cup {"SIGNAL"}
    /\ pc' = "s5"
    /\ UNCHANGED <<weekly, result, err, caller>>

Mask_s5 ==
    /\ pc = "s5"
    /\ df' = AssignSignal(df, 5)
    /\ cols' = cols \cup {"SIGNAL"}
    /\ pc' = "s6"
    /\ UNCHANGED <<weekly, result, err, caller>>

Mask_s6 ==
    /\ pc = "s6"
    /\ df' = AssignSignal(df, 6)
    /\ cols' = cols \cup {"SIGNAL"}
    /\ pc' = "s7"
    /\ UNCHANGED <<weekly, result, err, caller>>

Mask_s7 ==
    /\ pc = "s7"
    /\ df' = AssignSignal(df, 7)
    /\ cols' = cols \cup {"SIGNAL"}
    /\ pc' = "s8"
    /\ UNCHANGED <<weekly, result, err, caller>>

\* df['MAX_HIGH_1W'] raises KeyError unless the input table brought the column
Mask_s8 ==
    /\ pc = "s8"
    /\ IF "MAX_HIGH_1W" \in cols
       THEN /\ df' = AssignSignal(df, 8)
            /\ cols' = cols \cup {"SIGNAL"}
            /\ pc' = "s9"
            /\ UNCHANGED <<weekly, result, err, caller>>
       ELSE Raise("KeyError")

Mask_s9 ==
    /\ pc = "s9"
    /\ df' = AssignSignal(df, 9)
    /\ cols' = cols \cup {"SIGNAL"}
    /\ pc' = "s15"
    /\ UNCHANGED <<weekly, result, err, caller>>

Mask_s15 ==
    /\ pc = "s15"
    /\ df' = AssignSignal(df, 10)
    /\ cols' = cols \cup {"SIGNAL"}
    /\ pc' = "s18"
    /\ UNCHANGED <<weekly, result, err, caller>>

Mask_s18 ==
    /\ pc = "s18"
    /\ df' = AssignSignal(df, 11)
    /\ cols' = cols \cup {"SIGNAL"}
    /\ pc' = "filter"
    /\ UNCHANGED <<weekly, result, err, caller>>

(***************************************************************************)
(* run_signals: the result                                                 *)
(***************************************************************************)
\* result = df[df['SIGNAL'].notna()].copy()
FilterSignals ==
    /\ pc = "filter"
    /\ result' = SelectSeq(df, LAMBDA r : r.SIGNAL # NoSignal)
    /\ pc' = "stop_loss"
    /\ UNCHANGED <<df, cols, weekly, err, caller>>

\* str.contains('Buy') over the labels the masks assign
ContainsBuy(s) ==
    s \in {"U-Turn (Buy)", "Jump Start (Buy)", "Full Stop (Buy)",
           "Turn Around (Buy)", "Reverse (Buy)", "Gap (Buy)"}

\* the stop-loss that takes the Buy formula for every row
StopLossBelowLow(r) == r.LOW * 995

\* Buy Signals -> SL = Low - 0.5%, the others -> SL = High + 0.5% (thousandths)
StopLossOf(r) == IF ContainsBuy(r.SIGNAL) THEN r.LOW * 995 ELSE r.HIGH * 1005

\* lines 259-263.  When no mask matched any row the SIGNAL column holds NaN
\* only; whether it then has the object dtype that .str needs is decided by
\* the pandas build: .str raises AttributeError or the result is empty.
StopLoss ==
    /\ pc = "stop_loss"
    /\ \/ /\ \A i \in 1..Len(df) : df[i].SIGNAL = NoSignal
          /\ Raise("AttributeError")
       \/ /\ result' = [i \in 1..Len(result) |->
                           result[i] @@ [STOP_LOSS |-> StopLossOf(result[i])]]
          /\ pc' = "done"
          /\ UNCHANGED <<df, cols, weekly, err, caller>>

Next ==
    \/ ToDatetime
    \/ SortValues
    \/ PrevDayShift
    \/ RollingFeatures
    \/ EnterRunSignals
    \/ EnterRunWeeklySignals
    \/ WeeklyAggregate
    \/ WeeklyShifts
    \/ WeeklyRolling
    \/ Mask_w11
    \/ Mask_s1
    \/ Mask_s2
    \/ Mask_s3
    \/ Mask_s4
    \/ Mask_s5
    \/ Mask_s6
    \/ Mask_s7
    \/ Mask_s8
    \/ Mask_s9
    \/ Mask_s15
    \/ Mask_s18
    \/ FilterSignals
    \/ StopLoss

Spec == Init /\ [][Next]_vars

(***************************************************************************)
(* What a state says about the run                                         *)
(***************************************************************************)
RuleIndex(p) == CHOOSE k \in 1..Len(Rules) : Rules[k] = p

\* the rules whose mask has been evaluated and assigned
Evaluated ==
    IF pc \in {Rules[k] : k \in 1..Len(Rules)} THEN 1..(RuleIndex(pc) - 1)
    ELSE IF pc \in {"filter", "stop_loss", "done"} THEN 1..Len(Rules)
    ELSE IF pc = "error" /\ err = "KeyError" THEN 1..7
    ELSE IF pc = "error" /\ err = "AttributeError" THEN 1..Len(Rules)
    ELSE {}

\* the rules among E whose predicate is true of row i
TrueRules(f, E, i) == {k \in E : Mask(k, f, i)}

WellFormed == \A i \in 1..Len(df) : df[i].TIMESTAMP # Bad

BuyLabels == {Label[1], Label[3], Label[5], Label[7], Label[9], Label[10]}
SellLabels == {Label[2], Label[4], Label[6], Label[8]}

BarsOf(f, s) == Cardinality(SymbolRows(f, s))

(***************************************************************************)
(* C1                                                                      *)
(***************************************************************************)
\* C1: for every well-formed bar table (every timestamp parses, the seven
\* required columns are there) the run never ends in an error state.
C1_EvaluateIsTotal ==
    (WellFormed /\ RequiredCols \subseteq cols) => pc # "error"

(***************************************************************************)
(* C2                                                                      *)
(***************************************************************************)
\* the rows whose values the predicate of rule k reads for row i
RuleReads(k, f, g, i) ==
    LET prev == GroupShiftSrc(f, g, i, 1)
        before == ShiftSrc(f, i, 1)
        roll(n) == GroupRollSrc(f, g, i, n)
        rollBefore(n) == UNION {GroupRollSrc(f, g, j, n) : j \in before}
    IN CASE k = 1 -> prev \cup roll(20)
         [] k = 2 -> prev \cup roll(15)
         [] k = 3 -> prev \cup before \cup rollBefore(10) \cup roll(50)
         [] k = 4 -> prev \cup before \cup rollBefore(10) \cup roll(10)
         [] k = 5 -> prev \cup before \cup rollBefore(30)
         [] k = 6 -> prev \cup before \cup rollBefore(30)
         [] k = 7 -> prev \cup roll(5)
         [] k = 8 -> prev \cup roll(5)
         [] k = 9 -> prev \cup roll(5)
         [] k = 10 -> prev \cup RollSrc(f, i, 3) \cup roll(10)
         [] k = 11 -> prev \cup ShiftSrc(f, i, 2) \cup roll(90)

Isolated(f, g, E) ==
    \A k \in E : \A i \in 1..Len(f) : \A j \in RuleReads(k, f, g, i) :
        f[j].SYMBOL = f[i].SYMBOL

\* the previous-week and two-weeks-prior rows read for weekly bar i
WeeklyIsolated(f, g) ==
    \A i \in 1..Len(f) :
        \A j \in GroupShiftSrc(f, g, i, 1) \cup GroupShiftSrc(f, g, i, 2) :
            f[j].SYMBOL = f[i].SYMBOL

\* C2: every shifted or rolling value that an evaluated predicate reads for a
\* row of one entity is computed only from rows of that entity.
C2_CrossEntityIsolation ==
    /\ Isolated(df, GroupBy(df), Evaluated)
    /\ (pc = "error" /\ caller = "run_weekly_signals")
          => WeeklyIsolated(weekly, GroupBy(weekly))

(***************************************************************************)
(* C3                                                                      *)
(***************************************************************************)
LastWins(f, E) ==
    \A i \in 1..Len(f) :
        LET T == TrueRules(f, E, i)
        IN f[i].SIGNAL = IF T = {} THEN NoSignal ELSE Label[SetMax(T)]

FirstWins(f, E) ==
    \A i \in 1..Len(f) :
        LET T == TrueRules(f, E, i)
        IN f[i].SIGNAL = IF T = {} THEN NoSignal ELSE Label[SetMin(T)]

C4_StopLossByPolarity ==
    pc = "done" =>
        \A k \in 1..Len(result) :
            LET r == result[k]
            IN /\ r.SIGNAL \in BuyLabels => r.STOP_LOSS = r.LOW * 995
               /\ r.SIGNAL \in SellLabels => r.STOP_LOSS = r.HIGH * 1005
               /\ Def(r.STOP_LOSS)

\* a returned table with a Buy row and a Sell row
C4_Witness ==
    /\ pc = "done"
    /\ \E k \in 1..Len(result) : result[k].SIGNAL \in BuyLabels
    /\ \E k \in 1..Len(result) : result[k].SIGNAL \in SellLabels

(***************************************************************************)
(* C5                                                                      *)
(***************************************************************************)
Labelled(f) == SelectSeq(f, LAMBDA r : r.SIGNAL # NoSignal)

\* the weekly bars of which rule 13 is true, as mask_w13 has it
WeeklyMatches(f) == SelectSeq(f, mask_w13)

SameSignal(r, d) ==
    /\ r.SYMBOL = d.SYMBOL /\ r.DATE = d.DATE /\ r.CLOSE = d.CLOSE
    /\ r.SIGNAL = d.SIGNAL /\ r.TOTTRDQTY = d.TOTTRDQTY

WeeklySignal(r, w) ==
    /\ r.SYMBOL = w.SYMBOL /\ r.CLOSE = w.TWC
    /\ r.SIGNAL = "3-Week Reversal (Buy)" /\ r.TOTTRDQTY = w.TOTTRDQTY

\* C5: the returned table is the labelled daily rows in their order followed
\* by the weekly bars a weekly rule matches in theirs, none missing, each
\* with its entity, reference price, signal name and volume.
C5_ResultAssembly ==
    pc = "done" =>
        /\ Len(result) = Len(Labelled(df)) + Len(WeeklyMatches(weekly))
        /\ \A k \in 1..Len(Labelled(df)) : SameSignal(result[k], Labelled(df)[k])
        /\ \A k \in 1..Len(WeeklyMatches(weekly)) :
              WeeklySignal(result[Len(Labelled(df)) + k], WeeklyMatches(weekly)[k])

(***************************************************************************)
(* C6                                                                      *)
(***************************************************************************)
\* the bar of the claim: close at least 0.15% above the prior close, open at
\* least 0.25% below the prior low, close above its own open, low at or below
\* the 20-bar rolling low, volume at least 120% of the prior volume
UTurnBar(r) ==
    /\ Def(r.PDC) /\ r.CLOSE * 10000 >= r.PDC * 10015
    /\ Def(r.PDL) /\ r.OPEN * 10000 <= r.PDL * 9975
    /\ r.CLOSE > r.OPEN
    /\ Le(r.LOW, r.MIN_LOW_4W)
    /\ Def(r.PD_VOL) /\ r.TOTTRDQTY * 100 >= r.PD_VOL * 120

ReturnedAs(r, label) ==
    \E k \in 1..Len(result) :
        /\ result[k].SYMBOL = r.SYMBOL /\ result[k].DATE = r.DATE
        /\ result[k].SIGNAL = label
        /\ "STOP_LOSS" \in DOMAIN result[k]
        /\ result[k].STOP_LOSS = r.LOW * 995

\* C6: when run_signals has ended, every such bar is in its output, labelled
\* 'U-Turn (Buy)' with stop-loss = low * 0.995.
C6_UTurnDetected ==
    (pc \in {"done", "error"} /\ caller = "run_signals") =>
        \A i \in 1..Len(df) : UTurnBar(df[i]) => ReturnedAs(df[i], "U-Turn (Buy)")

(***************************************************************************)
(* C7                                                                      *)
(***************************************************************************)
\* the week of the claim: a previous week and a week before that, close above
\* the previous week's high and the close two weeks ago, volume above 500,000
ReversalWeek(w) ==
    /\ Gt(w.TWC, w.PWH)
    /\ Gt(w.TWC, w.QWC)
    /\ Gt(w.TOTTRDQTY, 500000)

\* C7: when run_weekly_signals has ended, every such week is labelled
\* '3-Week Reversal (Buy)'.
C7_ThreeWeekReversalDetected ==
    (pc \in {"done", "error"} /\ caller = "run_weekly_signals") =>
        \A i \in 1..Len(weekly) :
            ReversalWeek(weekly[i]) =>
                /\ "SIGNAL" \in DOMAIN weekly[i]
                /\ weekly[i].SIGNAL = "3-Week Reversal (Buy)"

(***************************************************************************)
(* C8                                                                      *)
(***************************************************************************)
FullStopLabels == {"Full Stop (Buy)", "Full Stop (Sell)"}

\* C8: no bar of an entity that has fewer than 30 bars carries a Full Stop
\* label, in the frame or in the returned table, whatever the other entity.
C8_NoFullStopOnShortHistory ==
    /\ "SIGNAL" \in cols =>
          \A i \in 1..Len(df) :
              df[i].SIGNAL \in FullStopLabels => BarsOf(df, df[i].SYMBOL) >= 30
    /\ \A k \in 1..Len(result) :
          result[k].SIGNAL \in FullStopLabels => BarsOf(df, result[k].SYMBOL) >= 30

\* Full Stop (Buy) but for the 6-week low
NearFullStopBuy(r) ==
    /\ GtK(r.LOW, r.PDC, 10010, 10000)
    /\ Gt(r.PDH, r.LOW)
    /\ Gt(r.CLOSE, r.OPEN)
    /\ Gt(r.CLOSE, r.PDH)
    /\ Gt(r.TOTTRDQTY, r.PD_VOL)
    /\ Gt(r.TOTTRDQTY, 500000)

\* rules 5 and 6 evaluated; an entity with fewer than 30 bars has a bar that
\* lacks only the history, after an entity with a Full Stop (Buy) bar
C8_Witness ==
    /\ pc = "s7"
    /\ \E i, j \in 1..Len(df) :
          /\ BarsOf(df, df[i].SYMBOL) < 30
          /\ NearFullStopBuy(df[i])
          /\ df[j].SIGNAL = "Full Stop (Buy)"
          /\ SymRank(df[j].SYMBOL) < SymRank(df[i].SYMBOL)

(***************************************************************************)
(* C9                                                                      *)
(***************************************************************************)
\* C9: a table with a timestamp that fails to parse does not abort the run
\* at the parse.
C9_BadTimestampTolerated ==
    ~WellFormed => ~(pc = "error" /\ err = "ValueError")

(***************************************************************************)
(* C10                                                                     *)
(***************************************************************************)
\* the rows of symbol s on the seven days that end on day fri
WeekDays(f, s, fri) ==
    {i \in 1..Len(f) : f[i].SYMBOL = s /\ f[i].DATE >= fri - 6 /\ f[i].DATE <= fri}

\* the rows of D on its first day, on its last day
Earliest(f, D) == {i \in D : \A j \in D : f[i].DATE <= f[j].DATE}
Latest(f, D) == {i \in D : \A j \in D : f[i].DATE >= f[j].DATE}

\* the emitted weeks of w's symbol before w
EarlierWeeks(f, w) == {j \in 1..Len(f) : f[j].SYMBOL = w.SYMBOL /\ f[j].DATE < w.DATE}

AggregatesOf(f, w) ==
    LET D == WeekDays(f, w.SYMBOL, w.DATE)
    IN /\ w.DATE % 7 = 4
       /\ D # {}
       /\ w.TWO \in {f[i].OPEN : i \in Earliest(f, D)}
       /\ w.TWH = SetMax({f[i].HIGH : i \in D})
       /\ w.TWL = SetMin({f[i].LOW : i \in D})
       /\ w.TWC \in {f[i].CLOSE : i \in Latest(f, D)}
       /\ w.TOTTRDQTY = SumOver(Col(f, "TOTTRDQTY"), D)

\* the week n emitted weeks before w, as a one-element set; empty when there is none
WeekBefore(wf, w, n) ==
    {j \in EarlierWeeks(wf, w) :
        Cardinality({x \in EarlierWeeks(wf, w) : wf[x].DATE > wf[j].DATE}) = n - 1}

ShiftedFrom(wf, w, S, o, h, l, c) ==
    IF S = {} THEN o = NaN /\ h = NaN /\ l = NaN /\ c = NaN
    ELSE LET p == wf[CHOOSE j \in S : TRUE]
         IN o = p.TWO /\ h = p.TWH /\ l = p.TWL /\ c = p.TWC

\* C10: every emitted week ends on a Friday and has a trading day; its open
\* is the first daily open, its high the highest high, its low the lowest
\* low, its close the last close, its volume the sum; its previous-week and
\* two-weeks-prior fields are those of the 1st and 2nd emitted week before it.
C10_WeeklyAggregation ==
    \A i \in 1..Len(weekly) :
        LET w == weekly[i]
        IN /\ AggregatesOf(df, w)
           /\ "PWO" \in DOMAIN w =>
                 /\ ShiftedFrom(weekly, w, WeekBefore(weekly, w, 1), w.PWO, w.PWH, w.PWL, w.PWC)
                 /\ ShiftedFrom(weekly, w, WeekBefore(weekly, w, 2), w.QWO, w.QWH, w.QWL, w.QWC)

\* the shifts made; a week whose previous emitted week is two calendar weeks
\* back, and a week of several days whose first and last close differ
C10_Witness ==
    /\ pc = "wk_roll"
    /\ \E i \in 1..Len(weekly) :
          \E j \in WeekBefore(weekly, weekly[i], 1) :
              /\ weekly[j].DATE = weekly[i].DATE - 14
              /\ weekly[i].PWC = weekly[j].TWC
    /\ \E i \in 1..Len(weekly) :
          LET D == WeekDays(df, weekly[i].SYMBOL, weekly[i].DATE)
          IN /\ Cardinality(D) >= 2
             /\ \A a \in Earliest(df, D), b \in Latest(df, D) : df[a].CLOSE # df[b].CLOSE

(***************************************************************************)
(* C11                                                                     *)
(***************************************************************************)
\* rows i and i + 1 are consecutive rows of one symbol
SameSymbolNext(f, i) == i < Len(f) /\ f[i].SYMBOL = f[i + 1].SYMBOL

\* C11: once the frame is sorted, and from then on, the timestamps of
\* consecutive rows of one symbol are strictly increasing, and no
\* previous-day field is taken from a row with the row's own timestamp.
C11_StrictlyIncreasing ==
    /\ (pc \notin {"to_datetime", "sort"} /\ "DATE" \in cols) =>
          \A i \in 1..Len(df) : SameSymbolNext(df, i) => df[i].DATE < df[i + 1].DATE
    /\ "PDC" \in cols =>
          \A i \in 1..Len(df) :
              \A j \in GroupShiftSrc(df, GroupBy(df), i, 1) : df[j].DATE # df[i].DATE

====
